---- MODULE Spec2Model ----
(***************************************************************************)
(* Loot table selector (src/loot_table_selector/src/main.rs).              *)
(*                                                                         *)
(* The program reads a loot table file line by line (main, lines 131-174), *)
(* then opens a form whose "Pick Loot" button draws one item from the      *)
(* table (pick_random_uniform / pick_random_weighted) and whose tick       *)
(* callback copies the shared State into the output labels.                *)
(*                                                                         *)
(* Strings are sequences of one-character strings, so that starts_with,    *)
(* split("!!") and u32::from_str are computed character by character.      *)
(* u32 values are kept at their width as two 16-bit limbs [hi, lo].        *)
(* A panic ends the process: pc = "panicked" and panic names the site.     *)
(***************************************************************************)
EXTENDS Integers, Sequences, FiniteSets, TLC

VARIABLES
    pc,          \* "reading" (the for loop of main), "ui" (event loop), "panicked"
    input,       \* the io::Result<String> items reader.lines() has yielded so far
    format,      \* main's `format` String
    loot_table,  \* main's `loot_table`: Vec<Box<dyn Loot>>
    panic,       \* the panic that ended the process, "" while it runs
    state,       \* the shared State struct
    labels,      \* the text of each output Label widget of the grid
    picked,      \* index (1-based) the last selection sampled, 0 before any
    overflow_checks  \* the build profile: TRUE when integer overflow panics

vars == <<pc, input, format, loot_table, panic, state, labels, picked,
          overflow_checks>>

----------------------------------------------------------------------------
(* Bounds *)

\* Number of items reader.lines() yields before the end of the file.
MaxLines == 4
\* Number of items the file has in the specification of the whole form.
MaxFormLines == 3
\* Totals up to this value have every draw of the weight sampler enumerated.
MaxEnumDraw == 6

----------------------------------------------------------------------------
(* u32 *)

\* One limb of a u32: u32 = hi * 2^16 + lo.
LimbBase == 65536

U32(h, l) == [hi |-> h, lo |-> l]
U32Zero == U32(0, 0)
U32Max == U32(LimbBase - 1, LimbBase - 1)
U32Small(n) == U32(0, n)

U32Le(a, b) == a.hi < b.hi \/ (a.hi = b.hi /\ a.lo <= b.lo)
U32Lt(a, b) == a.hi < b.hi \/ (a.hi = b.hi /\ a.lo < b.lo)

\* a + b as the hardware computes it: the wrapped sum and the carry out.
U32Add(a, b) ==
    LET l == a.lo + b.lo
        h == a.hi + b.hi + (l \div LimbBase)
    IN  [val |-> U32(h % LimbBase, l % LimbBase), overflow |-> h >= LimbBase]

\* a - 1 for a > 0.
U32Pred(a) == IF a.lo > 0 THEN U32(a.hi, a.lo - 1) ELSE U32(a.hi - 1, LimbBase - 1)

\* wrapping_mul(10) and wrapping_add(d): the overflow goes unnoticed.
U32MulAddWrapping(v, d) ==
    LET l == v.lo * 10 + d
        h == v.hi * 10 + (l \div LimbBase)
    IN  [val |-> U32(h % LimbBase, l % LimbBase), overflow |-> FALSE]

\* checked_mul(10) followed by checked_add(d), as from_str_radix does per digit.
U32MulAddChecked(v, d) ==
    LET l == v.lo * 10 + d
        h == v.hi * 10 + (l \div LimbBase)
    IN  [val |-> U32(h % LimbBase, l % LimbBase), overflow |-> h >= LimbBase]

----------------------------------------------------------------------------
(* Strings *)

Digits == {"0", "1", "2", "3", "4", "5", "6", "7", "8", "9"}

to_digit(c) ==
    CASE c = "0" -> 0 [] c = "1" -> 1 [] c = "2" -> 2 [] c = "3" -> 3
      [] c = "4" -> 4 [] c = "5" -> 5 [] c = "6" -> 6 [] c = "7" -> 7
      [] c = "8" -> 8 [] c = "9" -> 9

\* A test that never recognises the prefix.
starts_with_never(s, c) == FALSE

starts_with(s, c) == Len(s) > 0 /\ s[1] = c

\* str::split("!!"): matches are found left to right and do not overlap.
RECURSIVE SplitFrom(_, _, _)
SplitFrom(s, i, cur) ==
    IF i > Len(s) THEN <<cur>>
    ELSE IF i < Len(s) /\ s[i] = "!" /\ s[i + 1] = "!"
         THEN <<cur>> \o SplitFrom(s, i + 2, <<>>)
         ELSE SplitFrom(s, i + 1, Append(cur, s[i]))

split(s) == SplitFrom(s, 1, <<>>)

\* The digit loop of from_str_radix: Err on a non-digit or on overflow.
RECURSIVE ParseDigits(_, _, _)
ParseDigits(s, i, acc) ==
    IF i > Len(s) THEN [ok |-> TRUE, val |-> acc]
    ELSE IF s[i] \notin Digits THEN [ok |-> FALSE, val |-> U32Zero]
    ELSE LET r == U32MulAddChecked(acc, to_digit(s[i]))
         IN  IF r.overflow THEN [ok |-> FALSE, val |-> U32Zero]
             ELSE ParseDigits(s, i + 1, r.val)

\* <u32 as FromStr>::from_str: an optional '+', then at least one digit.
from_str(s) ==
    IF Len(s) = 0 THEN [ok |-> FALSE, val |-> U32Zero]
    ELSE IF s[1] = "+"
         THEN IF Len(s) = 1 THEN [ok |-> FALSE, val |-> U32Zero]
              ELSE ParseDigits(s, 2, U32Zero)
         ELSE ParseDigits(s, 1, U32Zero)

----------------------------------------------------------------------------
(* The lines a file may hold *)

Weighted == <<"W", "e", "i", "g", "h", "t", "e", "d">>
Uniform == <<"U", "n", "i", "f", "o", "r", "m">>

Ok(s) == [err |-> FALSE, text |-> s]
\* A line that fails to decode: reader.lines() yields Err for it.
ErrLine == [err |-> TRUE, text |-> <<>>]

LinePool ==
    { Ok(Weighted), Ok(Uniform),
      Ok(<<"w", "e", "i", "g", "h", "t", "e", "d">>),
      Ok(<<"U", "n", "i", "f", "o", "r", "m", " ">>),
      Ok(<<>>),
      Ok(<<"#", "c">>),
      Ok(<<"a", "!", "!", "1">>),
      Ok(<<"a", "!", "!", "0">>),
      Ok(<<"b", "!", "!", "0">>),
      Ok(<<"b", "!", "!", "+", "2">>),
      Ok(<<"c", "!", "!", "4", "2", "9", "4", "9", "6", "7", "2", "9", "5">>),
      Ok(<<"d", "!", "!", "4", "2", "9", "4", "9", "6", "7", "2", "9", "6">>),
      Ok(<<"a", "-", "1">>),
      Ok(<<"a", "!", "!", "b", "!", "!", "1">>),
      Ok(<<"a", "!", "!", "-", "1">>),
      Ok(<<"a", "!", "!", "x">>),
      Ok(<<"a", "!", "!">>),
      Ok(<<"a", " ", "b">>),
      ErrLine }

FormLinePool ==
    { Ok(Weighted), Ok(Uniform),
      Ok(<<"a", "!", "!", "1">>),
      Ok(<<"b", "!", "!", "0">>),
      Ok(<<"a", " ", "b">>) }

----------------------------------------------------------------------------
(* Panics, named by the message the process dies with *)

PanicFormat == "Error found in format."
PanicTokens == "Error found when parsing line."
PanicParseInt == "unwrap on Err: ParseIntError"
PanicUniformEmpty == "Uniform::new called with low >= high"
PanicNoItem == "unwrap on Err: NoItem"
PanicAllWeightsZero == "unwrap on Err: AllWeightsZero"
PanicAddOverflow == "attempt to add with overflow"
PanicDowncastString == "Unable to get String from item Box."
PanicDowncastWeighted == "Unable to get WeightedLoot from Box."
PanicFormatInvalid == "Error when attempting to call function to pick random loot."

----------------------------------------------------------------------------
(* Loot *)

WeightedLoot(n, w) == [kind |-> "WeightedLoot", name |-> n, weight |-> w]
\* Boxing a Uniform line as a WeightedLoot of weight 1.
StringLootAsWeighted(s) == WeightedLoot(s, [hi |-> 0, lo |-> 1])

StringLoot(s) == [kind |-> "String", name |-> s]

----------------------------------------------------------------------------
(* The table parser: one iteration of `for line in reader.lines()` *)

ParsePanic(msg) ==
    /\ pc' = "panicked"
    /\ panic' = msg

\* Lines 155-173: the data line `text` under the format already set.
PushLoot(text) ==
    IF format = Weighted
    THEN LET tokens == split(text)
         IN  IF Len(tokens) # 2
             THEN ParsePanic(PanicTokens) /\ UNCHANGED loot_table
             ELSE LET w == from_str(tokens[2])
                  IN  IF ~w.ok
                      THEN ParsePanic(PanicParseInt) /\ UNCHANGED loot_table
                      ELSE /\ loot_table' =
                                Append(loot_table, WeightedLoot(tokens[1], w.val))
                           /\ UNCHANGED <<pc, panic>>
    ELSE IF format = Uniform
    THEN /\ loot_table' = Append(loot_table, StringLoot(text))
         /\ UNCHANGED <<pc, panic>>
    ELSE UNCHANGED <<loot_table, pc, panic>>

\* The match of lines 149-152: "Weighted" | "Uniform", anything else panics.
IsFormatKeywordAnyCase(text) ==
    \/ text = Weighted
    \/ text = Uniform
    \/ text = <<"w", "e", "i", "g", "h", "t", "e", "d">>

IsFormatKeyword(text) == text = Weighted \/ text = Uniform

ReadLine(line, limit) ==
    /\ pc = "reading"
    /\ Len(input) < limit
    /\ input' = Append(input, line)
    /\ UNCHANGED <<state, labels, picked, overflow_checks>>
    /\ IF line.err
       THEN UNCHANGED <<format, loot_table, pc, panic>>
       ELSE IF starts_with(line.text, "#")
       THEN UNCHANGED <<format, loot_table, pc, panic>>
       ELSE IF format = <<>>
       THEN /\ format' = line.text
            /\ UNCHANGED loot_table
            /\ IF IsFormatKeyword(line.text)
               THEN UNCHANGED <<pc, panic>>
               ELSE ParsePanic(PanicFormat)
       ELSE /\ UNCHANGED format
            /\ PushLoot(line.text)

LabelIds == {"add_label", "sub_label", "text_label", "bigtext_label",
             "random_item_label"}

Text(prefix, arg) == [prefix |-> prefix, arg |-> arg]

\* reader.lines() is exhausted: main goes on to build the form (lines 191-259),
\* registers the callbacks and enters the event loop.
EndOfFile ==
    /\ pc = "reading"
    /\ pc' = "ui"
    /\ UNCHANGED <<input, format, loot_table, panic, state, labels, picked,
                   overflow_checks>>

----------------------------------------------------------------------------
(* The selector *)

Picked(i, n) == [ok |-> TRUE, index |-> i, name |-> n, panic |-> ""]
Failed(msg) == [ok |-> FALSE, index |-> 0, name |-> <<>>, panic |-> msg]

\* Uniform::from(0..n).sample(rng): every value the sampler can return.
UniformDraws(n) == 0 .. (n - 1)

\* Lines 81-85 for the index d the sampler returned.
uniform_pick(items, d) ==
    IF items[d + 1].kind = "String"
    THEN Picked(d + 1, items[d + 1].name)
    ELSE Failed(PanicDowncastString)

\* A picker that answers an empty table with an empty name.
pick_random_uniform_or_default(items) ==
    IF Len(items) = 0 THEN {Picked(0, <<>>)}
    ELSE { uniform_pick(items, d) : d \in UniformDraws(Len(items)) }

\* pick_random_uniform: the set of results over the draws of the rng.
pick_random_uniform(items) ==
    IF Len(items) = 0 THEN {Failed(PanicUniformEmpty)}
    ELSE { uniform_pick(items, d) : d \in UniformDraws(Len(items)) }

\* The loop of WeightedIndex::new over the weights after the first:
\* push the running total, then add the weight with `+=`.
RECURSIVE Accumulate(_, _, _, _, _)
Accumulate(weights, i, total, cum, checks) ==
    IF i > Len(weights)
    THEN [res |-> "Ok", cumulative_weights |-> cum, total_weight |-> total]
    ELSE LET s == U32Add(total, weights[i])
         IN  IF s.overflow /\ checks
             THEN [res |-> "Overflow", cumulative_weights |-> cum,
                   total_weight |-> total]
             ELSE Accumulate(weights, i + 1, s.val, Append(cum, total), checks)

WeightedIndexNew(weights, checks) ==
    IF Len(weights) = 0
    THEN [res |-> "NoItem", cumulative_weights |-> <<>>, total_weight |-> U32Zero]
    ELSE LET acc == Accumulate(weights, 2, weights[1], <<>>, checks)
         IN  IF acc.res = "Ok" /\ acc.total_weight = U32Zero
             THEN [acc EXCEPT !.res = "AllWeightsZero"]
             ELSE acc

\* slice::binary_search_by with the comparator of WeightedIndex::sample
\* (Less when the element is <= chosen_weight, Greater otherwise): Err(left).
RECURSIVE BinarySearch(_, _, _, _)
BinarySearch(cum, chosen_weight, left, right) ==
    IF left >= right THEN left
    ELSE LET mid == left + ((right - left) \div 2)
         IN  IF U32Le(cum[mid + 1], chosen_weight)
             THEN BinarySearch(cum, chosen_weight, mid + 1, right)
             ELSE BinarySearch(cum, chosen_weight, left, mid)

\* WeightedIndex::sample for the draw chosen_weight: a 0-based index.
WeightedIndexSample(dist, chosen_weight) ==
    BinarySearch(dist.cumulative_weights, chosen_weight, 0,
                 Len(dist.cumulative_weights))

\* The draws of the weight sampler over [0, total_weight) that are explored:
\* every draw below MaxEnumDraw, and the draws at and next to each boundary.
WeightDraws(dist) ==
    LET total == dist.total_weight
        cands == { U32Small(k) : k \in 0 .. (MaxEnumDraw - 1) }
                 \cup { U32Pred(total) }
                 \cup { dist.cumulative_weights[j] :
                          j \in 1 .. Len(dist.cumulative_weights) }
                 \cup { U32Pred(dist.cumulative_weights[j]) :
                          j \in { k \in 1 .. Len(dist.cumulative_weights) :
                                    dist.cumulative_weights[k] # U32Zero } }
    IN  { r \in cands : U32Lt(r, total) }

\* The name vector and the weight vector built by lines 101-112.
Choices(items) == [i \in 1 .. Len(items) |-> items[i].name]
WeightsOf(items) == [i \in 1 .. Len(items) |-> items[i].weight]

\* Line 115 for the draw chosen_weight of the weight sampler.
weighted_pick(items, dist, chosen_weight) ==
    LET i == WeightedIndexSample(dist, chosen_weight) + 1
    IN  Picked(i, Choices(items)[i])

\* pick_random_weighted: the set of results over the draws of the rng.
pick_random_weighted(items, checks) ==
    IF \E i \in 1 .. Len(items) : items[i].kind # "WeightedLoot"
    THEN {Failed(PanicDowncastWeighted)}
    ELSE LET dist == WeightedIndexNew(WeightsOf(items), checks)
         IN  CASE dist.res = "NoItem" -> {Failed(PanicNoItem)}
               [] dist.res = "AllWeightsZero" -> {Failed(PanicAllWeightsZero)}
               [] dist.res = "Overflow" -> {Failed(PanicAddOverflow)}
               [] dist.res = "Ok" ->
                    { weighted_pick(items, dist, r) : r \in WeightDraws(dist) }

\* A match whose Weighted arm calls the uniform picker on the names.
SelectIgnoringWeights(fmt, items, checks) ==
    IF fmt = Weighted
    THEN IF Len(items) = 0 THEN {Failed(PanicNoItem)}
         ELSE { Picked(d + 1, items[d + 1].name) : d \in UniformDraws(Len(items)) }
    ELSE IF fmt = Uniform THEN pick_random_uniform(items)
    ELSE {Failed(PanicFormatInvalid)}

\* The match of button.on_clicked (lines 287-291).
Select(fmt, items, checks) ==
    IF fmt = Weighted THEN pick_random_weighted(items, checks)
    ELSE IF fmt = Uniform THEN pick_random_uniform(items)
    ELSE {Failed(PanicFormatInvalid)}

\* button.on_clicked
Click ==
    /\ pc = "ui"
    /\ \E r \in Select(format, loot_table, overflow_checks) :
         IF r.ok
         THEN /\ state' = [state EXCEPT !.loot_val = r.name]
              /\ picked' = r.index
              /\ UNCHANGED <<pc, panic>>
         ELSE /\ pc' = "panicked"
              /\ panic' = r.panic
              /\ UNCHANGED <<state, picked>>
    /\ UNCHANGED <<input, format, loot_table, labels, overflow_checks>>

----------------------------------------------------------------------------
(* The form *)

\* Slider::new(&ui, 1, 100) and Spinbox::new(&ui, 1, 100): the ends of the range.
ControlVals == {1, 100}
\* What the user types into the Entry and the MultilineEntry.
EntryVals == {<<"x">>}
MultiVals == {<<"m">>}

slider_on_changed(val) ==
    /\ pc = "ui"
    /\ state' = [state EXCEPT !.slider_val = val]
    /\ UNCHANGED <<pc, input, format, loot_table, panic, labels, picked,
                   overflow_checks>>

spinner_on_changed(val) ==
    /\ pc = "ui"
    /\ state' = [state EXCEPT !.spinner_val = val]
    /\ UNCHANGED <<pc, input, format, loot_table, panic, labels, picked,
                   overflow_checks>>

entry_on_changed(val) ==
    /\ pc = "ui"
    /\ state' = [state EXCEPT !.entry_val = val]
    /\ UNCHANGED <<pc, input, format, loot_table, panic, labels, picked,
                   overflow_checks>>

multi_on_changed(val) ==
    /\ pc = "ui"
    /\ state' = [state EXCEPT !.multi_val = val]
    /\ UNCHANGED <<pc, input, format, loot_table, panic, labels, picked,
                   overflow_checks>>

\* The widget each handle captured by the on_tick closure refers to
\* (lines 301-305): random_item_label is a clone of bigtext_label.
TickHandles ==
    [add_label |-> "add_label", sub_label |-> "sub_label",
     text_label |-> "text_label", bigtext_label |-> "bigtext_label",
     random_item_label |-> "bigtext_label"]

set_text(ls, widget, text) == [ls EXCEPT ![widget] = text]

\* event_loop.on_tick: the five set_text calls in order (lines 310-314).
Tick ==
    /\ pc = "ui"
    /\ labels' =
         LET l1 == set_text(labels, TickHandles.add_label,
                            Text("Added: ", state.slider_val + state.spinner_val))
             l2 == set_text(l1, TickHandles.sub_label,
                            Text("Subtracted: ", state.slider_val - state.spinner_val))
             l3 == set_text(l2, TickHandles.text_label,
                            Text("Text: ", state.entry_val))
             l4 == set_text(l3, TickHandles.bigtext_label,
                            Text("Multiline Text: ", state.multi_val))
         IN  set_text(l4, TickHandles.random_item_label,
                      Text("Selected Item: ", state.loot_val))
    /\ UNCHANGED <<pc, input, format, loot_table, panic, state, picked,
                   overflow_checks>>

----------------------------------------------------------------------------
(* Specifications *)

Init ==
    /\ pc = "reading"
    /\ input = <<>>
    /\ format = <<>>
    /\ loot_table = <<>>
    /\ panic = ""
    /\ state = [slider_val |-> 0, spinner_val |-> 0, entry_val |-> <<>>,
                multi_val |-> <<>>, loot_val |-> <<>>]
    /\ labels = [l \in LabelIds |-> Text("", <<>>)]
    /\ picked = 0
    /\ overflow_checks \in BOOLEAN

\* The parser and the selector, over the full pool of lines.
Next ==
    \/ \E line \in LinePool : ReadLine(line, MaxLines)
    \/ EndOfFile
    \/ Click

Spec == Init /\ [][Next]_vars

\* The whole form, over short files.
NextForm ==
    \/ \E line \in FormLinePool : ReadLine(line, MaxFormLines)
    \/ EndOfFile
    \/ Click
    \/ \E val \in ControlVals : slider_on_changed(val)
    \/ \E val \in ControlVals : spinner_on_changed(val)
    \/ \E val \in EntryVals : entry_on_changed(val)
    \/ \E val \in MultiVals : multi_on_changed(val)
    \/ Tick

SpecForm == Init /\ [][NextForm]_vars

----------------------------------------------------------------------------
(* What the claims speak of, stated without the parser's own operators *)

Modes == {Weighted, Uniform}
ParsePanics == {PanicFormat, PanicTokens, PanicParseInt}

IsCommentLine(text) == text # <<>> /\ Head(text) = "#"
IsEffective(l) == ~l.err /\ ~IsCommentLine(l.text)

\* The readable, non-comment lines read so far, in order.
EffectiveLines ==
    LET eff == SelectSeq(input, IsEffective)
    IN  [i \in 1 .. Len(eff) |-> eff[i].text]

\* The text left of the first "!!" of a line (the whole line without one).
RECURSIVE LeftOfSeparator(_, _)
LeftOfSeparator(s, i) ==
    IF i >= Len(s) THEN s
    ELSE IF s[i] = "!" /\ s[i + 1] = "!" THEN SubSeq(s, 1, i - 1)
    ELSE LeftOfSeparator(s, i + 1)

\* The digits of a token after an optional '+' sign.
DigitsOf(tok) == IF tok # <<>> /\ Head(tok) = "+" THEN Tail(tok) ELSE tok

\* A base-10 non-negative integer: at least one digit, nothing but digits.
IsDecimalNat(tok) ==
    /\ DigitsOf(tok) # <<>>
    /\ \A i \in 1 .. Len(DigitsOf(tok)) : DigitsOf(tok)[i] \in Digits

RECURSIVE StripZeros(_)
StripZeros(d) == IF d # <<>> /\ Head(d) = "0" THEN StripZeros(Tail(d)) ELSE d

U32MaxDigits == <<"4", "2", "9", "4", "9", "6", "7", "2", "9", "5">>

\* The decimal numeral d (digits only) denotes a value of at most 2^32 - 1.
FitsU32(d) ==
    LET n == StripZeros(d)
    IN  \/ Len(n) < Len(U32MaxDigits)
        \/ /\ Len(n) = Len(U32MaxDigits)
           /\ \/ n = U32MaxDigits
              \/ \E k \in 1 .. Len(n) :
                   /\ \A j \in 1 .. (k - 1) : n[j] = U32MaxDigits[j]
                   /\ to_digit(n[k]) < to_digit(U32MaxDigits[k])

\* The last item read is a data line of a Weighted table.
LastIsWeightedData ==
    /\ format = Weighted
    /\ Len(input) >= 1
    /\ IsEffective(input[Len(input)])
    /\ Len(EffectiveLines) >= 2

LastText == input[Len(input)].text

----------------------------------------------------------------------------
(* C1 *)

\* C1: the first non-comment line must be exactly "Weighted" or "Uniform";
\* for every other first line (another case, surrounding whitespace, an empty
\* line, a data line) the parse dies with the format panic (the program's
\* InvalidFormatHeader) and no table is produced: no entry, no form, no pick.
C1_HeaderMustBeKeyword ==
    Len(EffectiveLines) >= 1 =>
        IF EffectiveLines[1] = Weighted \/ EffectiveLines[1] = Uniform
        THEN panic # PanicFormat /\ format = EffectiveLines[1]
        ELSE /\ pc = "panicked"
             /\ panic = PanicFormat
             /\ loot_table = <<>>
             /\ picked = 0

\* An empty first line after a comment is rejected as a header.
C1_Witness ==
    /\ Len(input) = 2
    /\ IsCommentLine(input[1].text)
    /\ input[2] = Ok(<<>>)
    /\ panic = PanicFormat

----------------------------------------------------------------------------
(* C2 *)

\* C2: once set, the mode is the first non-comment line of the input whatever
\* lines follow (a later "Weighted" or "Uniform" included), every entry of the
\* table is of the variant of that mode, and so no selection fails on the
\* variant check (the downcast of an item).
C2_ModeFixedAndUnmixed ==
    /\ (format # <<>> /\ panic # PanicFormat) =>
          /\ format \in Modes
          /\ format = EffectiveLines[1]
    /\ \A i \in 1 .. Len(loot_table) :
          /\ format = Weighted => loot_table[i].kind = "WeightedLoot"
          /\ format = Uniform => loot_table[i].kind = "String"
          /\ format \in Modes
    /\ pc = "ui" =>
          \A r \in Select(format, loot_table, overflow_checks) :
             r.panic \notin {PanicDowncastString, PanicDowncastWeighted}

\* A Uniform table that read a later "Weighted" line, after a pick from it.
C2_Witness ==
    /\ pc = "ui"
    /\ format = Uniform
    /\ \E i \in 2 .. Len(input) : input[i] = Ok(Weighted)
    /\ picked # 0

----------------------------------------------------------------------------
(* C3 *)

\* C3 as stated: a Weighted data line is accepted iff it splits on "!!" into
\* exactly two tokens and the right one is a base-10 non-negative integer;
\* another token count dies with the token panic (MalformedWeightedLine), a
\* bad right token with the parse panic (InvalidWeight), and then no table
\* is returned.
C3_AnyNaturalAccepted ==
    LastIsWeightedData =>
        LET tokens == split(LastText)
            wellFormed == Len(tokens) = 2 /\ IsDecimalNat(tokens[2])
        IN  /\ wellFormed <=> panic \notin ParsePanics
            /\ Len(tokens) # 2 => panic = PanicTokens
            /\ (Len(tokens) = 2 /\ ~IsDecimalNat(tokens[2])) => panic = PanicParseInt
            /\ panic \in ParsePanics => (pc = "panicked" /\ picked = 0)

\* C3 amended: the right token must be a base-10 non-negative integer of at
\* most 2^32 - 1 (an optional '+', then digits); a larger one dies with the
\* parse panic like a non-integer.
C3_U32NaturalAccepted ==
    LastIsWeightedData =>
        LET tokens == split(LastText)
            wellFormed == /\ Len(tokens) = 2
                          /\ IsDecimalNat(tokens[2])
                          /\ FitsU32(DigitsOf(tokens[2]))
        IN  /\ wellFormed <=> panic \notin ParsePanics
            /\ wellFormed => /\ Len(loot_table) = Len(EffectiveLines) - 1
                             /\ loot_table[Len(loot_table)].name = tokens[1]
            /\ Len(tokens) # 2 => panic = PanicTokens
            /\ (Len(tokens) = 2 /\ ~wellFormed) => panic = PanicParseInt
            /\ panic \in ParsePanics => (pc = "panicked" /\ picked = 0)

\* A weight of 2^32 after two valid lines, the first of weight 2^32 - 1.
C3_Witness ==
    /\ LastIsWeightedData
    /\ Len(loot_table) = 2
    /\ loot_table[1].weight = U32Max
    /\ panic = PanicParseInt
    /\ Len(split(LastText)) = 2
    /\ split(LastText)[2] = <<"4", "2", "9", "4", "9", "6", "7", "2", "9", "6">>

----------------------------------------------------------------------------
(* C4 *)

\* C4: for an input accepted so far, the entries are, in order and one per
\* line, the non-comment lines after the header: the whole line in Uniform
\* mode, the text left of "!!" in Weighted mode; comments contribute nothing.
C4_EntriesFollowLines ==
    (format \in Modes /\ panic \notin ParsePanics) =>
        /\ Len(loot_table) = Len(EffectiveLines) - 1
        /\ \A i \in 1 .. Len(loot_table) :
              loot_table[i].name =
                 IF format = Uniform THEN EffectiveLines[i + 1]
                 ELSE LeftOfSeparator(EffectiveLines[i + 1], 1)

\* A Uniform file with a comment between a line holding "!!" and one holding
\* a space.
C4_Witness ==
    /\ pc = "ui"
    /\ format = Uniform
    /\ Len(input) = 4
    /\ IsCommentLine(input[3].text)
    /\ Len(loot_table) = 2
    /\ loot_table[1].name = <<"a", "!", "!", "1">>
    /\ loot_table[2].name = <<"a", " ", "b">>

----------------------------------------------------------------------------
(* C5 *)

\* The panic an empty table ends a selection with (the program's EmptyTable).
EmptyTablePanic == IF format = Uniform THEN PanicUniformEmpty ELSE PanicNoItem

\* C5: a valid header with no data line parses without error into an empty
\* table, and every selection on an empty table, Uniform or Weighted, fails
\* with the empty-table panic and returns no name.
C5_EmptyTableFails ==
    /\ (format \in Modes /\ Len(EffectiveLines) = 1) =>
          /\ panic \notin ParsePanics
          /\ loot_table = <<>>
    /\ (format \in Modes /\ loot_table = <<>> /\ panic \notin ParsePanics) =>
          /\ \A r \in Select(format, loot_table, overflow_checks) :
                ~r.ok /\ r.panic = EmptyTablePanic
          /\ picked = 0
          /\ state.loot_val = <<>>
          /\ pc = "panicked" => panic = EmptyTablePanic

\* A Weighted header and a comment, then a click.
C5_Witness ==
    /\ format = Weighted
    /\ Len(input) = 2
    /\ Len(EffectiveLines) = 1
    /\ pc = "panicked"
    /\ panic = PanicNoItem

----------------------------------------------------------------------------
(* Weighted tables, stated on the weights as numbers *)

\* A Weighted table that was parsed to the end.
WeightedTableBuilt ==
    /\ format = Weighted
    /\ pc # "reading"
    /\ panic \notin ParsePanics

AllZero(items) == \A i \in 1 .. Len(items) : items[i].weight = U32Zero

RECURSIVE SumHi(_, _)
SumHi(items, i) == IF i > Len(items) THEN 0 ELSE items[i].weight.hi + SumHi(items, i + 1)

RECURSIVE SumLo(_, _)
SumLo(items, i) == IF i > Len(items) THEN 0 ELSE items[i].weight.lo + SumLo(items, i + 1)

\* The sum of the weights, as an unbounded number, is more than 2^32 - 1.
SumExceedsU32(items) == SumHi(items, 1) + (SumLo(items, 1) \div LimbBase) >= LimbBase

\* The sum of the weights of items[1..i] (for sums that fit in a u32).
PrefixSum(items, i) ==
    LET h == SumHi(SubSeq(items, 1, i), 1)
        l == SumLo(SubSeq(items, 1, i), 1)
    IN  U32(h + (l \div LimbBase), l % LimbBase)

----------------------------------------------------------------------------
(* C6 *)

\* C6: once a selection was attempted on a non-empty Weighted table, if its
\* weights are all zero the selection failed with AllZeroWeights and returned
\* no name, and if some weight is non-zero that error was not produced.
C6_AllZeroWeightsOnlyWhenAllZero ==
    (WeightedTableBuilt /\ Len(loot_table) >= 1 /\ (pc = "panicked" \/ picked # 0)) =>
        /\ AllZero(loot_table) => (picked = 0 /\ panic = PanicAllWeightsZero)
        /\ ~AllZero(loot_table) => panic # PanicAllWeightsZero

----------------------------------------------------------------------------
(* C7 *)

\* C7: once a selection was attempted on a Weighted table whose weights sum
\* to more than 2^32 - 1, it reported the overflow and no entry was sampled
\* from the wrapped total.
C7_OverflowReported ==
    (WeightedTableBuilt /\ SumExceedsU32(loot_table) /\ (pc = "panicked" \/ picked # 0)) =>
        /\ picked = 0
        /\ panic = PanicAddOverflow

----------------------------------------------------------------------------
(* C8 *)

\* Each index of a non-empty Uniform table is the result of exactly one of the
\* n draws.
UniformExact(items) ==
    /\ Cardinality(UniformDraws(Len(items))) = Len(items)
    /\ \A i \in 1 .. Len(items) :
          Cardinality({ d \in UniformDraws(Len(items)) :
                          uniform_pick(items, d).index = i }) = 1

\* Entry i of a Weighted table of total S is the result of exactly the draws
\* PrefixSum(i-1) .. PrefixSum(i) - 1 out of 0 .. S - 1: counted draw by draw
\* for a total up to MaxEnumDraw, checked at the ends of the range beyond.
WeightedExact(items) ==
    LET dist == WeightedIndexNew(WeightsOf(items), overflow_checks)
        n == Len(items)
    IN  /\ ~SumExceedsU32(items)
        /\ dist.res = "Ok"
        /\ dist.total_weight = PrefixSum(items, n)
        /\ \A i \in 1 .. n :
              LET chosen == { r \in WeightDraws(dist) :
                                weighted_pick(items, dist, r).index = i }
              IN  /\ items[i].weight = U32Zero => chosen = {}
                  /\ items[i].weight # U32Zero =>
                        /\ PrefixSum(items, i - 1) \in chosen
                        /\ U32Pred(PrefixSum(items, i)) \in chosen
                  /\ U32Le(dist.total_weight, U32Small(MaxEnumDraw)) =>
                        Cardinality(chosen) = items[i].weight.lo

\* C8: the selector realises the declared distribution exactly: 1 of the n
\* draws per index in Uniform mode, weight_i of the S draws for entry i in
\* Weighted mode whenever the total S is positive.
C8_DistributionExact ==
    /\ (format = Uniform /\ pc # "reading" /\ Len(loot_table) >= 1) =>
          UniformExact(loot_table)
    /\ (WeightedTableBuilt /\ Len(loot_table) >= 1 /\ ~AllZero(loot_table)) =>
          WeightedExact(loot_table)

\* The part of C8 that the code keeps: the same statement for the tables
\* whose weights sum to at most 2^32 - 1.
C8_ExactWhenSumFits ==
    /\ (format = Uniform /\ pc # "reading" /\ Len(loot_table) >= 1) =>
          UniformExact(loot_table)
    /\ (/\ WeightedTableBuilt
        /\ Len(loot_table) >= 1
        /\ ~AllZero(loot_table)
        /\ ~SumExceedsU32(loot_table)) =>
          WeightedExact(loot_table)

----------------------------------------------------------------------------
(* C9 *)

\* C9: after any number of clicks, the name a selection returned is the name
\* of an entry of the parsed table (the entry the sampler indexed), and in
\* Weighted mode an entry of that name has a non-zero weight.
C9_PickedIsPresentAndWeighted ==
    picked # 0 =>
        /\ picked \in 1 .. Len(loot_table)
        /\ state.loot_val = loot_table[picked].name
        /\ format = Weighted =>
              \E j \in 1 .. Len(loot_table) :
                 /\ loot_table[j].name = state.loot_val
                 /\ loot_table[j].weight # U32Zero

\* A pick of name "a" from a Weighted table that holds "a" with weight 0 first
\* and with weight 1 after it, next to a third entry.
C9_Witness ==
    /\ format = Weighted
    /\ Len(loot_table) = 3
    /\ loot_table[1] = WeightedLoot(<<"a">>, U32Zero)
    /\ \E j \in 2 .. 3 : loot_table[j] = WeightedLoot(<<"a">>, U32Small(1))
    /\ picked # 0
    /\ state.loot_val = <<"a">>

----------------------------------------------------------------------------
(* C10 *)

\* C10: after a tick that follows a selection, the selected-item label (random_item_label, laid out
\* next to the button) shows "Selected Item: <loot_val>" and every other
\* output label shows its own field, the multiline label
\* "Multiline Text: <multi_val>".
C10_TickShowsEachFieldInPlace ==
    [][(picked # 0 /\ Tick) =>
         /\ labels'["random_item_label"].prefix = "Selected Item: "
         /\ labels'["random_item_label"].arg = state'.loot_val
         /\ labels'["bigtext_label"].prefix = "Multiline Text: "
         /\ labels'["bigtext_label"].arg = state'.multi_val
         /\ labels'["text_label"].prefix = "Text: "
         /\ labels'["text_label"].arg = state'.entry_val
         /\ labels'["add_label"].prefix = "Added: "
         /\ labels'["add_label"].arg = state'.slider_val + state'.spinner_val
         /\ labels'["sub_label"].prefix = "Subtracted: "
         /\ labels'["sub_label"].arg = state'.slider_val - state'.spinner_val]_vars

====
